---- MODULE Spec2Model ----
(***************************************************************************)
(* Model of the ZAP templating helpers (helper-zap.js): iterate, the       *)
(* positional helpers, the accumulator registers, the option lookups and   *)
(* the `after` ordering barrier with its polling of the pending promises.  *)
(*                                                                         *)
(* A render pass owns one `global` object.  Its fields are the variables   *)
(* `promises` (this.global.promises) and `accumulators`                    *)
(* (this.global.accumulators); contexts refer to it by the reference       *)
(* GlobalRef.  Strings produced by block bodies are modelled as sequences  *)
(* of tokens, string concatenation as sequence concatenation.              *)
(***************************************************************************)
EXTENDS Integers, Sequences, FiniteSets, TLC

VARIABLES
    promises,      \* this.global.promises: the state of each registered promise
    barriers,      \* one record per invocation of `after`, in invocation order
    accumulators,  \* this.global.accumulators (or its absence)
    out,           \* the result of the last synchronous helper call
    lookups        \* one record per invocation of template_options or
                   \* template_option_with_code, in invocation order

vars == <<promises, barriers, accumulators, out, lookups>>

(***************************************************************************)
(* Bounds of the model.                                                    *)
(***************************************************************************)
MaxPromises == 2       \* registered promises in a pass
MaxBarriers == 2       \* invocations of `after` in a pass
MaxLivePromises == 2   \* the same two, for the specification with fairness
MaxLiveBarriers == 1
MaxRecords == 3        \* calls of addToAccumulator that append, in a pass
MaxCount == 3          \* largest count given to iterate

(***************************************************************************)
(* JavaScript values, tagged with their type.                              *)
(***************************************************************************)
Num(n) == [t |-> "number", n |-> n]
Str(s) == [t |-> "string", s |-> s]
Null == [t |-> "null"]
Undefined == [t |-> "undefined"]

\* the number k/2 for an odd k: a number that is not an integer
Half(k) == [t |-> "fraction", twice |-> k]

\* Twice the number a value converts to, as a set: empty when the value
\* converts to NaN.  The strings of the model are "2" and texts that are
\* not numerals.
TwiceNumber(v) ==
    IF v.t = "number" THEN {2 * v.n}
    ELSE IF v.t = "fraction" THEN {v.twice}
    ELSE IF v.t = "string" /\ v.s = "2" THEN {4}
    ELSE IF v.t = "null" THEN {0}
    ELSE {}

\* v == null, the loose comparison: true of null and of undefined
LooseNull(v) == v.t \in {"null", "undefined"}

(***************************************************************************)
(* Contexts.                                                               *)
(***************************************************************************)
GlobalRef == 1

RootContext == [global |-> GlobalRef]

\* a context as iterate builds it (lines 196-201)
\* mutant: the new context gets a copy of the global object
LoopContextCopyingGlobal(this, i, count) ==
    [global |-> this.global + 1, parent |-> this, index |-> Num(i),
     count |-> count]

LoopContext(this, i, count) ==
    [global |-> this.global, parent |-> this, index |-> Num(i), count |-> count]

\* the contexts a helper is invoked in: the root of the pass, or a loop step
InvokingContexts == {RootContext, LoopContext(RootContext, 0, Num(1))}

(***************************************************************************)
(* Block bodies: options.fn, the template text between the block tags.     *)
(* A body is pure: it renders its context to a string of tokens.           *)
(***************************************************************************)
FieldsBody == "{{index}}/{{count}}:{{value}}={{sum}};"

ListBody ==
    "{{#first}}[{{/first}}{{index}}{{#not_last}},{{/not_last}}{{#last}}]{{/last}}"

ProbeBody ==
    "{{#first}}F{{/first}}{{#middle}}M{{/middle}}{{#last}}L{{/last}}{{#not_last}}N{{/not_last}}"

Bodies == {"", "x", FieldsBody}

\* a mustache of a field the context lacks renders nothing
Field(ctx, f) == IF f \in DOMAIN ctx THEN <<ctx[f]>> ELSE <<>>

RECURSIVE Render(_, _)

(***************************************************************************)
(* The positional block helpers.  Each returns the string it renders (a    *)
(* helper that returns undefined renders nothing), the contexts it         *)
(* rendered its body in, and whether it threw.                             *)
(***************************************************************************)
\* this.f: reading a property the object lacks gives undefined
Get(this, f) == IF f \in DOMAIN this THEN this[f] ELSE Undefined

\* this.index != null && this.count != null
HasIndexAndCount(this) ==
    ~LooseNull(Get(this, "index")) /\ ~LooseNull(Get(this, "count"))

\* this.index == 0
IndexIsZero(this) == 0 \in TwiceNumber(Get(this, "index"))

\* this.index == this.count - 1
IndexIsLast(this) ==
    \E i \in TwiceNumber(Get(this, "index")),
       c \in TwiceNumber(Get(this, "count")) : i = c - 2

\* return options.fn(this), or fall off the end of the function
BlockIf(condition, this, body) ==
    IF condition
    THEN [ret |-> Render(body, this), calls |-> <<this>>, threw |-> FALSE]
    ELSE [ret |-> <<>>, calls |-> <<>>, threw |-> FALSE]

first(this, body) ==
    BlockIf(HasIndexAndCount(this) /\ IndexIsZero(this), this, body)

last(this, body) ==
    BlockIf(HasIndexAndCount(this) /\ IndexIsLast(this), this, body)

\* mutant: not_last without the tests that index and count are set
notLastUnchecked(this, body) ==
    BlockIf(~IndexIsLast(this), this, body)

not_last(this, body) ==
    BlockIf(HasIndexAndCount(this) /\ ~IndexIsLast(this), this, body)

\* mutant: middle without the test that the index is not 0
middleOrFirst(this, body) ==
    BlockIf(HasIndexAndCount(this) /\ ~IndexIsLast(this), this, body)

middle(this, body) ==
    BlockIf(HasIndexAndCount(this) /\ ~IndexIsZero(this) /\ ~IndexIsLast(this),
            this, body)

\* the text of a body rendered in a context; a body without mustaches is
\* its own text
Render(body, ctx) ==
    IF body = "" THEN <<>>
    ELSE IF body = FieldsBody
    THEN Field(ctx, "index") \o <<Str("/")>> \o Field(ctx, "count")
         \o <<Str(":")>> \o Field(ctx, "value") \o <<Str("=")>>
         \o Field(ctx, "sum") \o <<Str(";")>>
    ELSE IF body = ListBody
    THEN first(ctx, "[").ret \o Field(ctx, "index")
         \o not_last(ctx, ",").ret \o last(ctx, "]").ret
    ELSE IF body = ProbeBody
    THEN first(ctx, "F").ret \o middle(ctx, "M").ret
         \o last(ctx, "L").ret \o not_last(ctx, "N").ret
    ELSE <<Str(body)>>

(***************************************************************************)
(* The `after` barrier.                                                    *)
(***************************************************************************)
PromiseStates == {"pending", "resolved", "rejected"}

\* mutant: a rejected promise is taken for a resolved one
waitSwallowingRejection(promise) ==
    IF promise = "resolved" \/ promise = "rejected" THEN "resolved" ELSE "timer"

\* mutant: a promise that is not resolved yet is rejected instead of polled
waitWithoutPolling(promise) ==
    IF promise = "resolved" THEN "resolved" ELSE "rejected"

\* mutant: a rejected promise is polled again instead of rejecting
waitPollingRejected(promise) ==
    IF promise = "resolved" THEN "resolved" ELSE "timer"

\* One call of waitForSynchronousPromise on a promise in state `promise`:
\* the state of the poller afterwards.  "timer" is a scheduled setTimeout.
waitForSynchronousPromise(promise) ==
    IF promise = "resolved" THEN "resolved"
    ELSE IF promise = "rejected" THEN "rejected"
    ELSE "timer"

\* mutant: Promise.race in place of Promise.all
PromiseRace(prev, pollers) ==
    IF prev # "pending" THEN prev
    ELSE IF \E i \in DOMAIN pollers : pollers[i] = "rejected" THEN "rejected"
    ELSE IF \E i \in DOMAIN pollers : pollers[i] = "resolved" THEN "resolved"
    ELSE "pending"

\* Promise.all over the promises of the pollers; `prev` is its state so far
\* (a settled promise never changes).
PromiseAll(prev, pollers) ==
    IF prev # "pending" THEN prev
    ELSE IF \E i \in DOMAIN pollers : pollers[i] = "rejected" THEN "rejected"
    ELSE IF \A i \in DOMAIN pollers : pollers[i] = "resolved" THEN "resolved"
    ELSE "pending"

\* mutant: the forEach misses the last registered promise
drainAllButLast(globalPromises) ==
    LET pollers == [i \in 1..(Len(globalPromises) - 1) |->
                       waitForSynchronousPromise(globalPromises[i])]
    IN  [pollers |-> pollers, drain |-> PromiseAll("pending", pollers)]

\* mutant: the promise returned for an empty list is never resolved
drainEmptyNeverResolves(globalPromises) ==
    LET pollers == [i \in 1..Len(globalPromises) |->
                       waitForSynchronousPromise(globalPromises[i])]
    IN  [pollers |-> pollers,
         drain |-> IF Len(globalPromises) = 0 THEN "pending"
                   ELSE PromiseAll("pending", pollers)]

\* mutant: a barrier starts pollers only for the promises no earlier barrier
\* has started a poller for
drainUnseenSlice(globalPromises) ==
    LET seen == UNION {DOMAIN barriers[b].pollers : b \in DOMAIN barriers}
        pollers == [i \in (1..Len(globalPromises)) \ seen |->
                       waitForSynchronousPromise(globalPromises[i])]
    IN  [pollers |-> pollers, drain |-> PromiseAll("pending", pollers)]

\* promiseToResolveAllPreviousPromises: the pollers it starts, one per
\* element of globalPromises, and the state of the promise it returns.
promiseToResolveAllPreviousPromises(globalPromises) ==
    IF Len(globalPromises) = 0
    THEN [pollers |-> <<>>, drain |-> "resolved"]
    ELSE LET pollers == [i \in 1..Len(globalPromises) |->
                            waitForSynchronousPromise(globalPromises[i])]
         IN  [pollers |-> pollers, drain |-> PromiseAll("pending", pollers)]

\* the context `after` renders its body in (lines 284-287)
AfterContext(this) == [global |-> this.global, parent |-> this]

\* after(options) called on `this`: the barrier it starts.  `rendered` holds
\* the contexts the body has been rendered in.
after(this, globalPromises) ==
    LET p == promiseToResolveAllPreviousPromises(globalPromises)
    IN  [this     |-> this,
         pollers  |-> p.pollers,
         drain    |-> p.drain,
         status   |-> "pending",
         rendered |-> <<>>]

(***************************************************************************)
(* The option lookups: template_options and template_option_with_code.     *)
(***************************************************************************)
\* mutant: the promise a helper returns is not added to the registry
RegisterNothing(globalPromises) == globalPromises

\* the engine adds the promise a helper returns to this.global.promises
RegisterPromise(globalPromises) == Append(globalPromises, "pending")

\* mutant: the chain ends in a catch that turns a rejection into an empty
\* output
ThenCatching(lookup, outcome) ==
    IF outcome = "rejected"
    THEN [lookup EXCEPT !.stage = "resolved"]
    ELSE IF lookup.stage = "package"
    THEN [lookup EXCEPT !.stage = "query", !.optionQueries = @ + 1]
    ELSE [lookup EXCEPT !.stage = "resolved",
                        !.blocks = IF lookup.helper = "template_options"
                                   THEN @ + 1 ELSE @]

\* The chain of .then of the two helpers (lines 56-65 and 140-149) when the
\* promise it waits on settles with `outcome`.  No .then has a rejection
\* handler, so a rejection skips the rest of the chain and rejects the
\* promise the helper returned.  Fulfilled, the promise of
\* ensureTemplatePackageId starts the query; the promise of the query ends
\* template_option_with_code and lets template_options call collectBlocks,
\* which renders the block bodies.
Then(lookup, outcome) ==
    IF outcome = "rejected"
    THEN [lookup EXCEPT !.stage = "rejected"]
    ELSE IF lookup.stage = "package"
    THEN [lookup EXCEPT !.stage = "query", !.optionQueries = @ + 1]
    ELSE [lookup EXCEPT !.stage = "resolved",
                        !.blocks = IF lookup.helper = "template_options"
                                   THEN @ + 1 ELSE @]

\* the lookup a helper starts when invoked on `this`: it has called
\* ensureTemplatePackageId(this) and returns promise number `promise`
NewLookup(helper, this, promise) ==
    [helper         |-> helper,
     promise        |-> promise,
     stage          |-> "package",
     packageQueries |-> 1,
     optionQueries  |-> 0,
     blocks         |-> 0,
     failed         |-> "none"]

template_options(this, promise) ==
    NewLookup("template_options", this, promise)

template_option_with_code(this, promise) ==
    NewLookup("template_option_with_code", this, promise)

\* the state of the promise a helper returned, as the registry shows it
PromiseOf(lookup) ==
    IF lookup.stage \in {"resolved", "rejected"} THEN lookup.stage
    ELSE "pending"

\* the template invokes {{#template_options category=...}} in `this`; the
\* helper returns its promise and the engine registers it
TemplateOptions(this, max) ==
    /\ Len(lookups) < max
    /\ Len(promises) < max
    /\ lookups' = Append(lookups, template_options(this, Len(promises) + 1))
    /\ promises' = RegisterPromise(promises)
    /\ UNCHANGED <<barriers, accumulators, out>>

\* the template invokes {{template_option_with_code ...}} in `this`; the
\* helper returns its promise and the engine registers it
TemplateOptionWithCode(this, max) ==
    /\ Len(lookups) < max
    /\ Len(promises) < max
    /\ lookups' = Append(lookups,
                         template_option_with_code(this, Len(promises) + 1))
    /\ promises' = RegisterPromise(promises)
    /\ UNCHANGED <<barriers, accumulators, out>>

\* the promise lookup k waits on settles and the chain reacts
ChainReacts(k, outcome) ==
    LET lookup == Then(lookups[k], outcome)
    IN  /\ lookups' = [lookups EXCEPT ![k] =
              [lookup EXCEPT !.failed = IF outcome = "rejected"
                                        THEN lookups[k].stage ELSE @]]
        /\ promises' = [i \in DOMAIN promises |->
              IF i = lookup.promise THEN PromiseOf(lookup) ELSE promises[i]]
        /\ UNCHANGED <<barriers, accumulators, out>>

\* the promise of ensureTemplatePackageId of lookup k settles
EnsureTemplatePackageIdSettles(k, outcome) ==
    /\ lookups[k].stage = "package"
    /\ ChainReacts(k, outcome)

\* the promise of the query of lookup k settles
QuerySettles(k, outcome) ==
    /\ lookups[k].stage = "query"
    /\ ChainReacts(k, outcome)

\* a helper issues an asynchronous lookup and the engine registers it
Register(max) ==
    /\ Len(promises) < max
    /\ promises' = Append(promises, "pending")
    /\ UNCHANGED <<lookups, barriers, accumulators, out>>

\* a registered lookup settles
Settle(i, outcome) ==
    /\ promises[i] = "pending"
    /\ promises' = [promises EXCEPT ![i] = outcome]
    /\ UNCHANGED <<lookups, barriers, accumulators, out>>

\* the template invokes {{#after}} in context `this`
After(this, max) ==
    /\ Len(barriers) < max
    /\ barriers' = Append(barriers, after(this, promises))
    /\ UNCHANGED <<lookups, promises, accumulators, out>>

\* the timer of poller i of barrier b fires (lines 259-262)
PollTick(b, i) ==
    /\ b \in DOMAIN barriers
    /\ i \in DOMAIN barriers[b].pollers
    /\ barriers[b].pollers[i] = "timer"
    /\ LET pollers == [barriers[b].pollers EXCEPT
                          ![i] = waitForSynchronousPromise(promises[i])]
       IN  barriers' = [barriers EXCEPT
                          ![b].pollers = pollers,
                          ![b].drain = PromiseAll(barriers[b].drain, pollers)]
    /\ UNCHANGED <<lookups, promises, accumulators, out>>

\* mutant: the reaction runs again whenever the promise is found settled
AfterThenRepeating(b) ==
    /\ b \in DOMAIN barriers
    /\ barriers[b].drain # "pending"
    /\ barriers' = [barriers EXCEPT ![b] =
          IF barriers[b].drain = "resolved"
          THEN [@ EXCEPT !.status = "rendered",
                         !.rendered = Append(@, AfterContext(barriers[b].this))]
          ELSE [@ EXCEPT !.status = "failed"]]
    /\ UNCHANGED <<lookups, promises, accumulators, out>>

\* the promise of promiseToResolveAllPreviousPromises has settled and the
\* reaction `after` attached with .then runs (lines 283-289)
AfterThen(b) ==
    /\ b \in DOMAIN barriers
    /\ barriers[b].status = "pending"
    /\ barriers[b].drain # "pending"
    /\ barriers' = [barriers EXCEPT ![b] =
          IF barriers[b].drain = "resolved"
          THEN [@ EXCEPT !.status = "rendered",
                         !.rendered = Append(@, AfterContext(barriers[b].this))]
          ELSE [@ EXCEPT !.status = "failed"]]
    /\ UNCHANGED <<lookups, promises, accumulators, out>>

(***************************************************************************)
(* iterate.                                                                *)
(***************************************************************************)
\* mutant: the loop runs while i <= hash.count
LessOrEqualCount(i, count) ==
    \E c \in TwiceNumber(count) : 2 * i <= c

\* i < hash.count, the comparison of the loop of iterate (line 195): the
\* count is converted to a number, and NaN (an undefined count, a text)
\* compares false
LessThanCount(i, count) ==
    \E c \in TwiceNumber(count) : 2 * i < c

\* the counts a template gives: integers, none, a numeral in quotes, a
\* text, and 1.5
Counts ==
    {Num(n) : n \in (0 - 1)..MaxCount}
        \cup {Undefined, Str("2"), Str("many"), Half(3)}

\* the loop of iterate from step i on; ret and calls are the string built
\* and the contexts the body was rendered in so far
RECURSIVE iterateFrom(_, _, _, _, _, _)
iterateFrom(this, count, body, i, ret, calls) ==
    IF LessThanCount(i, count)
    THEN LET newContext == LoopContext(this, i, count)
         IN  iterateFrom(this, count, body, i + 1,
                         ret \o Render(body, newContext),
                         Append(calls, newContext))
    ELSE [ret |-> ret, calls |-> calls]

\* iterate(options) called on `this` with options.hash.count = count and
\* options.fn = body: the string it returns, the contexts it rendered the
\* body in, and whether it threw (no statement of it throws)
iterate(this, count, body) ==
    LET r == iterateFrom(this, count, body, 0, <<>>, <<>>)
    IN  [ret |-> r.ret, calls |-> r.calls, threw |-> FALSE]

(***************************************************************************)
(* The accumulators.                                                       *)
(***************************************************************************)
\* global without the key 'accumulators'
NoAccumulators == [exists |-> FALSE]

\* this.global.accumulators = {}
EmptyAccumulators == [exists |-> TRUE, own |-> <<>>]

\* a property every object literal inherits from Object.prototype
ObjectPrototypeKeys == {"constructor"}

Names == {"a", "b", "constructor"}
Values == {Null, Num(0 - 1), Num(2)}

\* accumulator in this.global.accumulators (line 211): own or inherited
HasProperty(table, accumulator) ==
    accumulator \in DOMAIN table.own \/ accumulator \in ObjectPrototypeKeys

NewRegister == [value |-> <<>>, sum |-> <<>>, currentSum |-> 0]

\* mutant: a null value stores 0 in place of the previous sum
PushResettingOnNull(register, value) ==
    LET lastSum == register.currentSum
        newSum == IF ~LooseNull(value) THEN lastSum + value.n ELSE 0
    IN  [value |-> Append(register.value, value),
         sum |-> Append(register.sum, newSum),
         currentSum |-> newSum]

\* lines 218-227 on a register
Push(register, value) ==
    LET lastSum == register.currentSum
        newSum == IF ~LooseNull(value) THEN lastSum + value.n ELSE lastSum
    IN  [value |-> Append(register.value, value),
         sum |-> Append(register.sum, newSum),
         currentSum |-> newSum]

\* addToAccumulator(accumulator, value) on a global whose accumulators are
\* `accumulators`: the accumulators afterwards and whether the call threw.
\* An inherited key passes the test of line 211, no register is created and
\* line 218 reads .value of the inherited object, which is undefined.
addToAccumulator(globalAccumulators, accumulator, value) ==
    LET table == IF globalAccumulators.exists THEN globalAccumulators
                 ELSE EmptyAccumulators
    IN  IF accumulator \in DOMAIN table.own
        THEN [accumulators |->
                 [table EXCEPT !.own[accumulator] = Push(@, value)],
              threw |-> FALSE]
        ELSE IF HasProperty(table, accumulator)
        THEN [accumulators |-> table, threw |-> TRUE]
        ELSE [accumulators |->
                 [table EXCEPT !.own =
                     [n \in DOMAIN table.own \cup {accumulator} |->
                         IF n = accumulator THEN Push(NewRegister, value)
                         ELSE table.own[n]]],
              threw |-> FALSE]

\* mutant: every step is given the current sum of the register
AccumulatorContextCurrentSum(this, accumulator, i) ==
    [global |-> this.global,
     parent |-> this,
     index  |-> Num(i),
     count  |-> Num(Len(accumulator.value)),
     sum    |-> Num(accumulator.currentSum),
     value  |-> accumulator.value[i + 1]]

\* a context as iterateAccumulator builds it (lines 239-246)
AccumulatorContext(this, accumulator, i) ==
    [global |-> this.global,
     parent |-> this,
     index  |-> Num(i),
     count  |-> Num(Len(accumulator.value)),
     sum    |-> Num(accumulator.sum[i + 1]),
     value  |-> accumulator.value[i + 1]]

\* the loop of iterateAccumulator from step i on (lines 238-248)
RECURSIVE iterateAccumulatorFrom(_, _, _, _, _, _)
iterateAccumulatorFrom(this, accumulator, body, i, ret, calls) ==
    IF i < Len(accumulator.value)
    THEN LET newContext == AccumulatorContext(this, accumulator, i)
         IN  iterateAccumulatorFrom(this, accumulator, body, i + 1,
                                    ret \o Render(body, newContext),
                                    Append(calls, newContext))
    ELSE [ret |-> ret, calls |-> calls]

\* mutant: the replay consumes the register it iterates over
iterateAccumulatorConsuming(this, globalAccumulators, name, body) ==
    IF globalAccumulators.exists /\ name \in DOMAIN globalAccumulators.own
    THEN LET r == iterateAccumulatorFrom(this, globalAccumulators.own[name], body,
                                         0, <<>>, <<>>)
         IN  [ret |-> r.ret, calls |-> r.calls, threw |-> FALSE,
              accumulators |->
                 [globalAccumulators EXCEPT !.own[name] = NewRegister]]
    ELSE [ret |-> <<>>, calls |-> <<>>, threw |-> FALSE,
          accumulators |-> globalAccumulators]

\* iterateAccumulator(options) called on `this` with
\* options.hash.accumulator = name and options.fn = body: the string it
\* returns, the contexts it rendered the body in, whether it threw, and the
\* accumulators afterwards.  For an inherited key the value looked up at
\* line 235 is an object without .value, and line 238 reads .length of
\* undefined.
iterateAccumulator(this, globalAccumulators, name, body) ==
    IF ~globalAccumulators.exists
    THEN [ret |-> <<>>, calls |-> <<>>, threw |-> FALSE,
          accumulators |-> globalAccumulators]
    ELSE IF name \in DOMAIN globalAccumulators.own
    THEN LET r == iterateAccumulatorFrom(this, globalAccumulators.own[name], body,
                                         0, <<>>, <<>>)
         IN  [ret |-> r.ret, calls |-> r.calls, threw |-> FALSE,
              accumulators |-> globalAccumulators]
    ELSE IF name \in ObjectPrototypeKeys
    THEN [ret |-> <<>>, calls |-> <<>>, threw |-> TRUE,
          accumulators |-> globalAccumulators]
    ELSE [ret |-> <<>>, calls |-> <<>>, threw |-> FALSE,
          accumulators |-> globalAccumulators]

\* the number of values recorded in all registers
RecordCount(table) ==
    IF table.exists
    THEN Cardinality(UNION {{<<n, i>> : i \in DOMAIN table.own[n].value} :
                                n \in DOMAIN table.own})
    ELSE 0

\* the property key a value used as a key converts to (lines 211-212)
PropertyKey(v) ==
    IF v.t = "string" THEN v.s
    ELSE IF v.t = "undefined" THEN "undefined"
    ELSE "null"

\* the first argument of addToAccumulator: a name, or nothing
NameArguments == {Str(n) : n \in Names} \cup {Undefined}

\* the arguments of addToAccumulator: a name and a value, or a value alone
RecordArguments ==
    ({Str(n) : n \in Names} \X Values) \cup {<<Undefined, Num(2)>>}

\* the template invokes {{addToAccumulator accumulator value}}; `name` is
\* the argument and `accumulator` the key it is used as
AddToAccumulator(this, accumulator, value) ==
    /\ RecordCount(accumulators) < MaxRecords
    /\ LET r == addToAccumulator(accumulators, PropertyKey(accumulator), value)
       IN  /\ accumulators' = r.accumulators
           /\ out' = [helper |-> "addToAccumulator",
                      name |-> accumulator,
                      accumulator |-> PropertyKey(accumulator),
                      value |-> value,
                      threw |-> r.threw]
    /\ UNCHANGED <<lookups, promises, barriers>>

\* the template invokes {{#iterateAccumulator accumulator=name}}body
IterateAccumulator(this, name, body) ==
    /\ LET r == iterateAccumulator(this, accumulators, name, body)
       IN  /\ accumulators' = r.accumulators
           /\ out' = [helper |-> "iterateAccumulator",
                      this |-> this,
                      accumulator |-> name,
                      body |-> body,
                      ret |-> r.ret,
                      calls |-> r.calls,
                      threw |-> r.threw]
    /\ UNCHANGED <<lookups, promises, barriers>>

\* the template invokes {{#iterate count=count}}body
Iterate(this, count, body) ==
    /\ LET r == iterate(this, count, body)
       IN  out' = [helper |-> "iterate",
                   this |-> this,
                   count |-> count,
                   body |-> body,
                   ret |-> r.ret,
                   calls |-> r.calls,
                   threw |-> r.threw]
    /\ UNCHANGED <<lookups, promises, barriers, accumulators>>

\* the contexts a positional helper is invoked in: the contexts iterate
\* builds, contexts without a position, and contexts with half a position
PositionalContexts ==
    {LoopContext(RootContext, i, count) :
        <<i, count>> \in {ic \in (0..MaxCount) \X Counts :
                            LessThanCount(ic[1], ic[2])}}
    \cup {RootContext, AfterContext(RootContext),
          [global |-> GlobalRef, index |-> Num(0)],
          [global |-> GlobalRef, count |-> Num(1)],
          [global |-> GlobalRef, index |-> Null, count |-> Num(1)],
          [global |-> GlobalRef, index |-> Num(0), count |-> Null]}

PositionalOutput(helper, this, body, r) ==
    [helper |-> helper, this |-> this, body |-> body,
     ret |-> r.ret, calls |-> r.calls, threw |-> r.threw]

\* the template invokes {{#first}}body in context `this`
First(this, body) ==
    /\ out' = PositionalOutput("first", this, body, first(this, body))
    /\ UNCHANGED <<lookups, promises, barriers, accumulators>>

\* the template invokes {{#last}}body in context `this`
Last(this, body) ==
    /\ out' = PositionalOutput("last", this, body, last(this, body))
    /\ UNCHANGED <<lookups, promises, barriers, accumulators>>

\* the template invokes {{#not_last}}body in context `this`
NotLast(this, body) ==
    /\ out' = PositionalOutput("not_last", this, body, not_last(this, body))
    /\ UNCHANGED <<lookups, promises, barriers, accumulators>>

\* the template invokes {{#middle}}body in context `this`
Middle(this, body) ==
    /\ out' = PositionalOutput("middle", this, body, middle(this, body))
    /\ UNCHANGED <<lookups, promises, barriers, accumulators>>

NoOutput == [helper |-> "none"]

Init ==
    /\ promises = <<>>
    /\ barriers = <<>>
    /\ accumulators = NoAccumulators
    /\ out = NoOutput
    /\ lookups = <<>>

Next ==
    \/ Register(MaxPromises)
    \/ \E i \in DOMAIN promises, outcome \in {"resolved", "rejected"} :
          Settle(i, outcome)
    \/ \E this \in InvokingContexts : After(this, MaxBarriers)
    \/ \E b \in DOMAIN barriers : \E i \in DOMAIN barriers[b].pollers :
          PollTick(b, i)
    \/ \E b \in DOMAIN barriers : AfterThen(b)

Spec == Init /\ [][Next]_vars

\* The same pass under the smaller bounds, with the fairness of the event
\* loop: it runs every scheduled timer and every promise reaction.
LiveNext ==
    \/ Register(MaxLivePromises)
    \/ \E i \in DOMAIN promises, outcome \in {"resolved", "rejected"} :
          Settle(i, outcome)
    \/ \E this \in InvokingContexts : After(this, MaxLiveBarriers)
    \/ \E b \in DOMAIN barriers : \E i \in DOMAIN barriers[b].pollers :
          PollTick(b, i)
    \/ \E b \in DOMAIN barriers : AfterThen(b)

\* A pass of the synchronous helpers: iterate and the accumulators.
SyncNext ==
    \/ \E this \in InvokingContexts, arguments \in RecordArguments :
          AddToAccumulator(this, arguments[1], arguments[2])
    \/ \E this \in InvokingContexts, name \in Names, body \in Bodies :
          IterateAccumulator(this, name, body)
    \/ \E this \in InvokingContexts, count \in Counts, body \in Bodies :
          Iterate(this, count, body)

SyncSpec == Init /\ [][SyncNext]_vars

\* A pass of iterate and the positional helpers.
PositionNext ==
    \/ \E this \in PositionalContexts, body \in Bodies : First(this, body)
    \/ \E this \in PositionalContexts, body \in Bodies : Last(this, body)
    \/ \E this \in PositionalContexts, body \in Bodies : NotLast(this, body)
    \/ \E this \in PositionalContexts, body \in Bodies : Middle(this, body)
    \/ \E this \in InvokingContexts, count \in Counts,
          body \in Bodies \cup {ListBody, ProbeBody} :
          Iterate(this, count, body)

PositionSpec == Init /\ [][PositionNext]_vars

\* A pass of the option lookups and the barriers that wait for them.
LookupNext ==
    \/ \E this \in InvokingContexts : TemplateOptions(this, MaxLivePromises)
    \/ \E this \in InvokingContexts :
          TemplateOptionWithCode(this, MaxLivePromises)
    \/ \E k \in DOMAIN lookups, outcome \in {"resolved", "rejected"} :
          EnsureTemplatePackageIdSettles(k, outcome)
    \/ \E k \in DOMAIN lookups, outcome \in {"resolved", "rejected"} :
          QuerySettles(k, outcome)
    \/ \E this \in InvokingContexts : After(this, MaxLiveBarriers)
    \/ \E b \in DOMAIN barriers : \E i \in DOMAIN barriers[b].pollers :
          PollTick(b, i)
    \/ \E b \in DOMAIN barriers : AfterThen(b)

LookupSpec == Init /\ [][LookupNext]_vars

\* A pass of the helpers that create contexts: iterate, iterateAccumulator
\* over what addToAccumulator recorded, and `after` with nothing to wait on.
ContextNext ==
    \/ \E this \in InvokingContexts, accumulator \in NameArguments :
          AddToAccumulator(this, accumulator, Num(2))
    \/ \E this \in InvokingContexts, name \in Names :
          IterateAccumulator(this, name, "x")
    \/ \E this \in InvokingContexts, count \in Counts :
          Iterate(this, count, "x")
    \/ \E this \in InvokingContexts : After(this, MaxLiveBarriers)
    \/ \E b \in DOMAIN barriers : AfterThen(b)

ContextSpec == Init /\ [][ContextNext]_vars

\* A pass that mixes addToAccumulator and iterate with registered promises
\* and the barriers polling them.
FrameNext ==
    \/ \E this \in InvokingContexts, accumulator \in NameArguments :
          AddToAccumulator(this, accumulator, Num(2))
    \/ \E this \in InvokingContexts, count \in Counts :
          Iterate(this, count, "x")
    \/ Register(MaxLivePromises)
    \/ \E i \in DOMAIN promises, outcome \in {"resolved", "rejected"} :
          Settle(i, outcome)
    \/ \E this \in InvokingContexts : After(this, MaxLiveBarriers)
    \/ \E b \in DOMAIN barriers : \E i \in DOMAIN barriers[b].pollers :
          PollTick(b, i)
    \/ \E b \in DOMAIN barriers : AfterThen(b)

FrameSpec == Init /\ [][FrameNext]_vars

Fairness ==
    /\ \A b \in 1..MaxLiveBarriers : \A i \in 1..MaxLivePromises :
          WF_vars(PollTick(b, i))
    /\ \A b \in 1..MaxLiveBarriers : WF_vars(AfterThen(b))

LiveSpec == Init /\ [][LiveNext]_vars /\ Fairness

(***************************************************************************)
(* Properties of the `after` barrier.                                      *)
(***************************************************************************)
\* the registered promises barrier b waits on
Snapshot(b) == DOMAIN barriers[b].pollers

BodyRendered(b) == b \in DOMAIN barriers /\ Len(barriers[b].rendered) > 0

Failed(b) == b \in DOMAIN barriers /\ barriers[b].status = "failed"

\* C1: a barrier invoked with N >= 1 registered promises has rendered its
\* body only in states where all N of them have settled.
C1_BodyOnlyAfterAllSettled ==
    \A b \in DOMAIN barriers :
        (Snapshot(b) # {} /\ BodyRendered(b))
            => \A i \in Snapshot(b) : promises[i] # "pending"

C1_Witness ==
    \E b \in DOMAIN barriers :
        /\ Cardinality(Snapshot(b)) >= 2
        /\ BodyRendered(b)

\* C2: when a promise of a barrier's snapshot is rejected, the body of the
\* barrier is never rendered and the barrier eventually fails, whatever
\* the other promises of the snapshot do.
SnapshotHasRejected(b) ==
    b \in DOMAIN barriers /\ \E i \in Snapshot(b) : promises[i] = "rejected"

C2_FailedOperationFailsBarrier ==
    \A b \in 1..MaxLiveBarriers :
        /\ [](SnapshotHasRejected(b) => ~BodyRendered(b))
        /\ (SnapshotHasRejected(b) ~> Failed(b))

C2_Witness ==
    \E b \in DOMAIN barriers :
        /\ barriers[b].status = "failed"
        /\ \E i, j \in Snapshot(b) :
              promises[i] = "rejected" /\ promises[j] = "resolved"

\* C3: a barrier waits on exactly the promises registered when `after` was
\* invoked; that set never changes afterwards, and the barrier fails only
\* on a rejected promise of that set.
C3_SnapshotAtInvocation ==
    /\ [][\A b \in DOMAIN barriers' :
            IF b \in DOMAIN barriers
            THEN DOMAIN barriers'[b].pollers = DOMAIN barriers[b].pollers
            ELSE DOMAIN barriers'[b].pollers = DOMAIN promises]_vars
    /\ [](\A b \in DOMAIN barriers :
            barriers[b].status = "failed"
                => \E i \in Snapshot(b) : promises[i] = "rejected")

C3_Witness ==
    \E b \in DOMAIN barriers :
        /\ BodyRendered(b)
        /\ Snapshot(b) # {}
        /\ \E j \in DOMAIN promises \ Snapshot(b) : promises[j] = "pending"

\* C4 as stated: a barrier that has failed or rendered its body has no
\* pending promise in its snapshot.
C4_DecidesOnlyWhenAllSettled ==
    \A b \in DOMAIN barriers :
        barriers[b].status \in {"failed", "rendered"}
            => \A i \in Snapshot(b) : promises[i] # "pending"

\* C4 amended: a barrier that has rendered its body has seen every promise
\* of its snapshot resolved; a barrier that has failed has seen a promise
\* of its snapshot rejected (others may still be pending).
C4_DecidesOnObservedOutcome ==
    \A b \in DOMAIN barriers :
        /\ barriers[b].status = "rendered"
              => \A i \in Snapshot(b) :
                    barriers[b].pollers[i] = "resolved"
                    /\ promises[i] = "resolved"
        /\ barriers[b].status = "failed"
              => \E i \in Snapshot(b) :
                    barriers[b].pollers[i] = "rejected"
                    /\ promises[i] = "rejected"

C4_Witness ==
    \E b \in DOMAIN barriers :
        /\ barriers[b].status = "failed"
        /\ \E i \in Snapshot(b) : promises[i] = "pending"

\* C5: a barrier invoked on an empty registry gets an already resolved
\* promise and no poll timer, never fails, and renders its body.
C5_EmptyRegistryNoPolling ==
    /\ [][(Len(barriers') > Len(barriers) /\ promises = <<>>)
            => /\ barriers'[Len(barriers')].drain = "resolved"
               /\ barriers'[Len(barriers')].pollers = <<>>]_vars
    /\ \A b \in 1..MaxLiveBarriers :
          /\ []((b \in DOMAIN barriers /\ Snapshot(b) = {})
                    => barriers[b].status # "failed")
          /\ ((b \in DOMAIN barriers /\ Snapshot(b) = {})
                    ~> BodyRendered(b))

C5_Witness ==
    \E b \in DOMAIN barriers :
        /\ Snapshot(b) = {}
        /\ BodyRendered(b)
        /\ promises = <<>>
(***************************************************************************)
(* Properties of the accumulators and of iterate.                          *)
(***************************************************************************)
\* the sum of the values[1..i] that are not null
RECURSIVE SumOfNonNull(_, _)
SumOfNonNull(values, i) ==
    IF i = 0 THEN 0
    ELSE SumOfNonNull(values, i - 1)
         + (IF LooseNull(values[i]) THEN 0 ELSE values[i].n)

\* the concatenation of the body rendered in calls[1..k], in that order
RECURSIVE ConcatRendered(_, _, _)
ConcatRendered(body, calls, k) ==
    IF k = 0 THEN <<>>
    ELSE ConcatRendered(body, calls, k - 1) \o Render(body, calls[k])

HasRegister(table, name) == table.exists /\ name \in DOMAIN table.own

\* the values recorded under a name so far
RecordedValues(table, name) ==
    IF HasRegister(table, name) THEN table.own[name].value ELSE <<>>

\* C6: in every register the sum sequence is as long as the value
\* sequence, sum[i] is the sum of the non-null values up to i, and
\* currentSum is the last entry of the sum sequence.
C6_RunningSums ==
    accumulators.exists =>
        \A name \in DOMAIN accumulators.own :
            LET register == accumulators.own[name]
            IN  /\ Len(register.value) >= 1
                /\ Len(register.sum) = Len(register.value)
                /\ \A i \in 1..Len(register.value) :
                      register.sum[i] = SumOfNonNull(register.value, i)
                /\ register.currentSum = register.sum[Len(register.sum)]

C6_Witness ==
    /\ HasRegister(accumulators, "a")
    /\ accumulators.own["a"].value = <<Num(2), Num(2), Null>>
    /\ accumulators.own["a"].sum = <<2, 4, 4>>

\* C7: every record call appends its value to the register of its name,
\* and a replay of a register holding [v0..vn] renders the body n+1 times,
\* the i-th time with index i, count n+1, value vi and the running sum at
\* i, and returns the concatenation of the results in that order.
C7_ReplayMatchesRecords ==
    /\ [][(accumulators' # accumulators /\ ~out'.threw)
            => RecordedValues(accumulators', out'.accumulator)
                 = Append(RecordedValues(accumulators, out'.accumulator),
                          out'.value)]_vars
    /\ []((out.helper = "iterateAccumulator"
            /\ HasRegister(accumulators, out.accumulator))
          => LET values == accumulators.own[out.accumulator].value
                 n == Len(values)
             IN  /\ Len(out.calls) = n
                 /\ \A i \in 0..(n - 1) :
                       /\ out.calls[i + 1].index = Num(i)
                       /\ out.calls[i + 1].count = Num(n)
                       /\ out.calls[i + 1].value = values[i + 1]
                       /\ out.calls[i + 1].sum
                            = Num(SumOfNonNull(values, i + 1))
                 /\ out.ret = ConcatRendered(out.body, out.calls, n))

C7_Witness ==
    /\ out.helper = "iterateAccumulator"
    /\ out.accumulator = "a"
    /\ Len(out.calls) = 2
    /\ out.calls[2].value = Null
    /\ Len(out.ret) > 2
    /\ HasRegister(accumulators, "b")

\* C8: a replay leaves the accumulators as they are, and a replay that
\* follows a replay of the same name and body in the same context returns
\* what that one returned.
C8_ReplayIsReadOnly ==
    /\ [][out'.helper = "iterateAccumulator"
            => accumulators' = accumulators]_vars
    /\ [][(/\ out.helper = "iterateAccumulator"
           /\ out'.helper = "iterateAccumulator"
           /\ out'.this = out.this
           /\ out'.accumulator = out.accumulator
           /\ out'.body = out.body)
            => out' = out]_vars

C8_Witness ==
    /\ out.helper = "iterateAccumulator"
    /\ Len(out.calls) >= 2
    /\ Len(out.ret) > 0

\* C9: a replay of a name without a register, when there are no
\* accumulators at all or when only other names have registers, returns
\* the empty string and raises no error.
C9_ReplayOfUnknownNameIsEmpty ==
    (/\ out.helper = "iterateAccumulator"
     /\ ~HasRegister(accumulators, out.accumulator)
     /\ accumulators.exists => DOMAIN accumulators.own # {})
        => out.ret = <<>> /\ out.calls = <<>> /\ ~out.threw

\* C10: iterate with an integer count > 0 renders the body count times,
\* with index 0..count-1 in that order and count on each, and returns the
\* concatenation of the results; with count <= 0 it renders nothing and
\* returns the empty string.
C10_IterateCount ==
    (out.helper = "iterate" /\ out.count.t = "number")
        => LET count == out.count.n
           IN  IF count > 0
               THEN /\ Len(out.calls) = count
                    /\ \A i \in 0..(count - 1) :
                          /\ out.calls[i + 1].index = Num(i)
                          /\ out.calls[i + 1].count = Num(count)
                    /\ out.ret = ConcatRendered(out.body, out.calls, count)
               ELSE out.calls = <<>> /\ out.ret = <<>>

C10_Witness ==
    /\ out.helper = "iterate"
    /\ out.count = Num(3)
    /\ Len(out.calls) = 3
    /\ Len(out.ret) > 3

\* C11: iterate with a count that is missing, not numeric or fractional
\* raises an error and renders its body in no context.
IntegerCount(count) == count.t = "number"

C11_BadCountRejected ==
    (out.helper = "iterate" /\ ~IntegerCount(out.count))
        => out.threw /\ out.calls = <<>>

(***************************************************************************)
(* Properties of the positional helpers.                                   *)
(***************************************************************************)
PositionalHelpers == {"first", "last", "not_last", "middle"}

\* index and count are integers with 0 <= index < count
ValidPosition(ctx) ==
    /\ "index" \in DOMAIN ctx /\ "count" \in DOMAIN ctx
    /\ ctx.index.t = "number" /\ ctx.count.t = "number"
    /\ 0 <= ctx.index.n /\ ctx.index.n < ctx.count.n

\* what ProbeBody renders at index i of count: F, M, L, N say that first,
\* middle, last, not_last rendered their bodies
ExpectedProbe(i, count) ==
    IF count = 1 THEN <<Str("F"), Str("L")>>
    ELSE IF i = 0 THEN <<Str("F"), Str("N")>>
    ELSE IF i = count - 1 THEN <<Str("L")>>
    ELSE <<Str("M"), Str("N")>>

RECURSIVE ExpectedProbes(_, _)
ExpectedProbes(k, count) ==
    IF k = 0 THEN <<>>
    ELSE ExpectedProbes(k - 1, count) \o ExpectedProbe(k - 1, count)

\* C12: in a context with 0 <= index < count, first renders iff index = 0,
\* last iff index = count - 1, not_last iff last does not, middle iff
\* neither first nor last does; so with count >= 2 exactly one of first,
\* middle, last renders, with count = 1 first and last render and middle
\* and not_last do not; and the list template over count = 3 gives [0,1,2].
C12_PositionalHelpers ==
    /\ (out.helper \in PositionalHelpers /\ ValidPosition(out.this))
        => LET i == out.this.index.n
               count == out.this.count.n
               renders ==
                   CASE out.helper = "first" -> i = 0
                     [] out.helper = "last" -> i = count - 1
                     [] out.helper = "not_last" -> i # count - 1
                     [] out.helper = "middle" -> i # 0 /\ i # count - 1
           IN  IF renders
               THEN out.calls = <<out.this>>
                    /\ out.ret = Render(out.body, out.this)
               ELSE out.calls = <<>> /\ out.ret = <<>>
    /\ (/\ out.helper = "iterate"
        /\ out.body = ProbeBody
        /\ IntegerCount(out.count)
        /\ out.count.n >= 1)
        => out.ret = ExpectedProbes(out.count.n, out.count.n)
    /\ (out.helper = "iterate" /\ out.body = ListBody /\ out.count = Num(3))
        => out.ret = <<Str("["), Num(0), Str(","), Num(1), Str(","),
                       Num(2), Str("]")>>

C12_Witness ==
    /\ out.helper = "iterate"
    /\ out.body = ProbeBody
    /\ out.count = Num(3)
    /\ out.ret = <<Str("F"), Str("N"), Str("M"), Str("N"), Str("L")>>

\* C13: first, last, not_last and middle render nothing in a context whose
\* index or count is unset, do not throw, render their body in the context
\* they were invoked in, and leave the global state as it is.
Unset(ctx, f) == f \notin DOMAIN ctx \/ ctx[f] \in {Null, Undefined}

C13_UnsetPositionRendersNothing ==
    /\ [](out.helper \in PositionalHelpers
            => /\ ~out.threw
               /\ out.calls \in {<<>>, <<out.this>>}
               /\ (Unset(out.this, "index") \/ Unset(out.this, "count"))
                    => out.calls = <<>> /\ out.ret = <<>>)
    /\ [][out'.helper \in PositionalHelpers
            => /\ accumulators' = accumulators
               /\ promises' = promises
               /\ barriers' = barriers
               /\ lookups' = lookups]_vars

C13_Witness ==
    /\ out.helper = "not_last"
    /\ out.body = "x"
    /\ "index" \in DOMAIN out.this
    /\ "count" \notin DOMAIN out.this
    /\ out.ret = <<>>

C17_FailedLookupFails ==
    /\ [](\A k \in DOMAIN lookups :
            /\ lookups[k].packageQueries <= 1
            /\ lookups[k].optionQueries <= 1
            /\ lookups[k].failed # "none"
                  => /\ lookups[k].stage = "rejected"
                     /\ promises[lookups[k].promise] = "rejected"
                     /\ lookups[k].blocks = 0
                     /\ lookups[k].failed = "package"
                           => lookups[k].optionQueries = 0)
    /\ [][\A k \in DOMAIN lookups :
            lookups[k].failed # "none"
                => /\ lookups'[k] = lookups[k]
                   /\ promises'[lookups[k].promise]
                         = promises[lookups[k].promise]]_vars

C17_Witness ==
    \E k, l \in DOMAIN lookups :
        /\ lookups[k].helper = "template_options"
        /\ lookups[k].failed = "query"
        /\ lookups[l].helper = "template_option_with_code"
        /\ lookups[l].failed = "package"
        /\ \E b \in DOMAIN barriers :
              Failed(b) /\ lookups[k].promise \in Snapshot(b)

(***************************************************************************)
(* Properties of several barriers in one pass.                             *)
(***************************************************************************)
\* C15 as stated: a later barrier does not wait on a promise an earlier
\* barrier waited on, and fails only on a rejected promise that no earlier
\* barrier waited on.
C15_BarrierWaitsOnOwnSlice ==
    \A b1, b2 \in DOMAIN barriers :
        b1 < b2
            => /\ Snapshot(b1) \cap Snapshot(b2) = {}
               /\ Failed(b2)
                    => \E i \in Snapshot(b2) \ Snapshot(b1) :
                          promises[i] = "rejected"

\* C15 amended: the registry is never drained, so a later barrier waits on
\* every promise registered before it, those of the earlier barriers
\* included: its snapshot contains theirs, it renders its body only when it
\* has seen them resolved too, and never once one of them is rejected.
C15_BarrierWaitsOnAllPrevious ==
    \A b1, b2 \in DOMAIN barriers :
        b1 < b2
            => /\ Snapshot(b1) \subseteq Snapshot(b2)
               /\ BodyRendered(b2)
                    => \A i \in Snapshot(b1) :
                          /\ barriers[b2].pollers[i] = "resolved"
                          /\ promises[i] = "resolved"

C15_Witness ==
    \E b1, b2 \in DOMAIN barriers :
        /\ b1 < b2
        /\ Snapshot(b1) # {}
        /\ Snapshot(b2) \ Snapshot(b1) # {}
        /\ Failed(b1) /\ Failed(b2)
        /\ \A i \in Snapshot(b2) \ Snapshot(b1) : promises[i] = "resolved"

(***************************************************************************)
(* Properties of the contexts.                                             *)
(***************************************************************************)
\* the contexts the last helper call and the barriers rendered bodies in,
\* each with the context its helper was invoked in
CreatedContexts ==
    (IF out.helper \in {"iterate", "iterateAccumulator"}
     THEN {[context |-> out.calls[i], this |-> out.this] :
              i \in DOMAIN out.calls}
     ELSE {})
    \cup UNION {{[context |-> barriers[b].rendered[i],
                  this |-> barriers[b].this] :
                    i \in DOMAIN barriers[b].rendered} :
                b \in DOMAIN barriers}

\* C16: every context created by iterate, iterateAccumulator and after has
\* the invoking context as its parent and the global of the invoking
\* context as its global, so all contexts refer to the one global object of
\* the pass.
C16_ContextsShareGlobal ==
    \A c \in CreatedContexts :
        /\ c.context.parent = c.this
        /\ c.context.global = c.this.global
        /\ c.context.global = GlobalRef
        /\ c.this.global = GlobalRef

C16_Witness ==
    /\ \E c \in CreatedContexts :
          /\ out.helper = "iterate"
          /\ c.context \in {out.calls[i] : i \in DOMAIN out.calls}
          /\ c.this # RootContext
          /\ c.context.parent.parent = RootContext
    /\ \E b \in DOMAIN barriers :
          /\ BodyRendered(b)
          /\ barriers[b].rendered[1].parent # RootContext
    /\ accumulators.exists

(***************************************************************************)
(* Properties of addToAccumulator without a name.                          *)
(***************************************************************************)
\* C18: addToAccumulator called without a name raises an error, and no
\* register exists under a key made up for the missing name.
C18_MissingNameRejected ==
    (out.helper = "addToAccumulator" /\ out.name = Undefined)
        => /\ out.threw
           /\ accumulators.exists
                 => PropertyKey(Undefined) \notin DOMAIN accumulators.own

(***************************************************************************)
(* Termination of a barrier.                                               *)
(***************************************************************************)
AllSettled(b) ==
    b \in DOMAIN barriers /\ \A i \in Snapshot(b) : promises[i] # "pending"

Settled(b) ==
    b \in DOMAIN barriers /\ barriers[b].status \in {"rendered", "failed"}

Polling(b) ==
    b \in DOMAIN barriers
        /\ \E i \in Snapshot(b) : barriers[b].pollers[i] = "timer"

\* C19: once every promise of a barrier's snapshot has settled, the barrier
\* eventually renders its body or fails, and eventually none of its poll
\* timers is left.
C19_BarrierEventuallySettles ==
    \A b \in 1..MaxLiveBarriers :
        /\ AllSettled(b) ~> Settled(b)
        /\ AllSettled(b) ~> ~Polling(b)

C19_Witness ==
    \E b \in DOMAIN barriers :
        /\ Settled(b)
        /\ ~Polling(b)
        /\ Cardinality(Snapshot(b)) >= 2
        /\ \E i, j \in Snapshot(b) :
              /\ barriers[b].pollers[i] = "resolved"
              /\ barriers[b].pollers[j] = "rejected"

\* C20: a barrier settles at most once: its body is rendered at most one
\* time, exactly when its status is "rendered"; a failed barrier has
\* rendered nothing; and once a barrier has settled, its status, what it
\* rendered and the promise it waited on never change, whatever its pollers
\* see afterwards.
C20_BarrierSettlesOnce ==
    /\ [](\A b \in DOMAIN barriers :
            /\ Len(barriers[b].rendered) <= 1
            /\ barriers[b].status = "rendered"
                  <=> Len(barriers[b].rendered) = 1
            /\ barriers[b].status = "failed"
                  => barriers[b].rendered = <<>>)
    /\ [][\A b \in DOMAIN barriers :
            /\ barriers[b].status # "pending"
                  => /\ barriers'[b].status = barriers[b].status
                     /\ barriers'[b].rendered = barriers[b].rendered
            /\ barriers[b].drain # "pending"
                  => barriers'[b].drain = barriers[b].drain]_vars

C20_Witness ==
    \E b \in DOMAIN barriers :
        /\ barriers[b].status = "failed"
        /\ \E i, j \in Snapshot(b) :
              /\ i # j
              /\ barriers[b].pollers[i] = "rejected"
              /\ barriers[b].pollers[j] = "rejected"

(***************************************************************************)
(* Frame conditions on the global object.                                  *)
(***************************************************************************)
\* the registers of a table, none when the table does not exist
Registers(table) == IF table.exists THEN table.own ELSE <<>>

\* register `new` is register `old` with one more value and one more
\* sum, the earlier ones kept
AppendedOne(old, new, value) ==
    /\ new.value = Append(old.value, value)
    /\ Len(new.sum) = Len(old.sum) + 1
    /\ \A i \in DOMAIN old.sum : new.sum[i] = old.sum[i]

\* C21: a call of addToAccumulator on name A appends exactly one entry to
\* the values and to the sums of register A and changes no other register
\* and not the registered promises; a step of `after`, of its polling or of
\* its reaction, and a call of iterate, change neither the registered
\* promises nor the accumulators.
C21_FrameConditions ==
    [][/\ barriers' # barriers
            => promises' = promises /\ accumulators' = accumulators
       /\ (out'.helper = "iterate" /\ out' # out)
            => promises' = promises /\ accumulators' = accumulators
       /\ (/\ out'.helper = "addToAccumulator"
           /\ out' # out \/ accumulators' # accumulators)
            => LET A == out'.accumulator
                   before == Registers(accumulators)
                   now == Registers(accumulators')
               IN  /\ promises' = promises
                   /\ DOMAIN now = DOMAIN before \cup {A}
                   /\ \A n \in DOMAIN before \ {A} : now[n] = before[n]
                   /\ AppendedOne(IF A \in DOMAIN before THEN before[A]
                                  ELSE NewRegister,
                                  now[A], out'.value)]_vars
====
